---- MODULE Spec2Model ----
(***************************************************************************)
(* A model of extract_tankopedia.py: the per-nation extraction tasks, the  *)
(* localization reader, name resolution, and the load / merge / write of   *)
(* the tankopedia and maps catalogs.                                       *)
(*                                                                         *)
(* Text is a sequence of one-character strings, so that str.split and      *)
(* re.match are computed rather than assumed.  A Python dict is a function *)
(* with a finite domain; the order of its keys is not represented, so the  *)
(* sorting steps (sorted(), bu.sort_dict, sort_keys) leave a mapping as it *)
(* is.  A file on disk is a record [kind, value]: kind is "absent",        *)
(* "empty" (zero length), "garbage" (text that is no JSON) or "json", and  *)
(* value is the JSON value the text stands for.                            *)
(***************************************************************************)
EXTENDS Integers, Sequences, FiniteSets, TLC

\* ---------------------------------------------------------------- bounds

\* The number of nations of wg.NATION the run iterates over.
NumNations == 2

\* The largest raw vehicle id the identifier encoder is probed with.
MaxRawId == 3

\* ------------------------------------------------------------------ text

EmptyDict == [k \in {} |-> <<>>]

\* Python's None where a text is expected (no text is this sequence: every
\* element of a text is a single character).
None == <<"None">>

Digits == <<"0", "1", "2", "3", "4", "5", "6", "7", "8", "9">>

IsDigit(c) == \E d \in 1..10 : Digits[d] = c

DigitValue(c) == (CHOOSE d \in 1..10 : Digits[d] = c) - 1

\* int(text) succeeds: the texts of the model carry no sign and no blanks.
IsIntText(s) == Len(s) > 0 /\ \A i \in 1..Len(s) : IsDigit(s[i])

RECURSIVE int(_)
int(s) ==
    IF Len(s) = 0 THEN 0
    ELSE 10 * int(SubSeq(s, 1, Len(s) - 1)) + DigitValue(s[Len(s)])

RECURSIVE str(_)
str(n) ==
    IF n < 10 THEN <<Digits[n + 1]>>
    ELSE str(n \div 10) \o <<Digits[(n % 10) + 1]>>

\* s.split(sep) for a one-character separator: always at least one segment.
RECURSIVE split(_, _)
split(s, sep) ==
    IF \A i \in 1..Len(s) : s[i] # sep THEN <<s>>
    ELSE LET i == CHOOSE i \in 1..Len(s) :
                      s[i] = sep /\ \A j \in 1..(i - 1) : s[j] # sep
         IN  <<SubSeq(s, 1, i - 1)>> \o split(SubSeq(s, i + 1, Len(s)), sep)

IsPrefix(p, s) == Len(p) <= Len(s) /\ SubSeq(s, 1, Len(p)) = p

\* re.compile(re_str).match(key) for the patterns of convert_tank_names: a
\* literal with an optional leading ^ and an optional trailing $.  match()
\* tries the pattern at position 0 of key only; $ matches at the end of key
\* or before a newline that ends it.
re_match(re_str, key) ==
    LET noHat == IF Len(re_str) > 0 /\ Head(re_str) = "^" THEN Tail(re_str) ELSE re_str
        toEnd == Len(noHat) > 0 /\ noHat[Len(noHat)] = "$"
        lit   == IF toEnd THEN SubSeq(noHat, 1, Len(noHat) - 1) ELSE noHat
    IN  IF toEnd THEN key = lit \/ key = lit \o <<"\n">>
        ELSE IsPrefix(lit, key)

re_strs ==
    << <<"^", "C", "h", "a", "s", "s", "i", "s", "_">>,
       <<"^", "T", "u", "r", "r", "e", "t", "_">>,
       <<"^", "_">>,
       <<"_", "s", "h", "o", "r", "t", "$">> >>

\* Mutant of update: a key the two share keeps its old value.
update_keeps_old(old, new) ==
    [k \in DOMAIN old \cup DOMAIN new |-> IF k \in DOMAIN old THEN old[k] ELSE new[k]]

\* dict.update: the keys of new are inserted or replace those of old.
update(old, new) ==
    [k \in DOMAIN old \cup DOMAIN new |-> IF k \in DOMAIN new THEN new[k] ELSE old[k]]

\* ---------------------------------------------------------- blitzutils.WG

\* wg.NATION_ID gives every nation an index in 0..15.
AllNations ==
    <<"ussr", "germany", "usa", "china", "france", "uk", "japan", "other",
      "european", "nation9", "nation10", "nation11", "nation12", "nation13",
      "nation14", "nation15">>

NATION_ID ==
    [n \in {AllNations[i] : i \in 1..Len(AllNations)} |->
        (CHOOSE i \in 1..Len(AllNations) : AllNations[i] = n) - 1]

NATION == SubSeq(AllNations, 1, NumNations)

Nations == {NATION[i] : i \in 1..Len(NATION)}

TANK_TYPE ==
    << <<"l", "i", "g", "h", "t", "T", "a", "n", "k">>,
       <<"m", "e", "d", "i", "u", "m", "T", "a", "n", "k">>,
       <<"h", "e", "a", "v", "y", "T", "a", "n", "k">>,
       <<"A", "T", "-", "S", "P", "G">> >>

\* ------------------------------------------------- identifier and classifier

ShiftLeft(x, k) == x * (2 ^ k)

\* Mutant of get_tank_id: the raw id is shifted by 4 bits, onto the nation.
get_tank_id_short_shift(nation, tank_id) ==
    ShiftLeft(tank_id, 4) + ShiftLeft(NATION_ID[nation], 4) + 1

get_tank_id(nation, tank_id) ==
    ShiftLeft(tank_id, 8) + ShiftLeft(NATION_ID[nation], 4) + 1

get_tank_type(tagstr) ==
    LET tags == split(tagstr, " ")
    IN  IF \E i \in 1..Len(TANK_TYPE) : tags[1] = TANK_TYPE[i]
        THEN TANK_TYPE[CHOOSE i \in 1..Len(TANK_TYPE) : tags[1] = TANK_TYPE[i]]
        ELSE None

\* ------------------------------------------------------------ input files

\* An XML attribute value as xmltodict gives it: a text, or a compound value
\* (a dict) when the element has children.
Text(s) == [isdict |-> FALSE, text |-> s]

Compound == [isdict |-> TRUE, text |-> <<>>]

PfxVehicles == <<"#", "u", "s", "s", "r", "_", "v", "e", "h", "i", "c", "l", "e", "s", ":">>

\* Display keys: one the string table knows, one it does not (with two
\* colons), one without any colon.
K_T34 == PfxVehicles \o <<"T", "3", "4">>

K_KV1 == PfxVehicles \o <<"K", "V", "1", ":", "m", "o", "d">>

K_IS2 == <<"I", "S", "2">>

K_Chassis_Foo == PfxVehicles \o <<"C", "h", "a", "s", "s", "i", "s", "_", "F", "o", "o">>

K_Turret_Bar == PfxVehicles \o <<"T", "u", "r", "r", "e", "t", "_", "B", "a", "r">>

K_Baz == PfxVehicles \o <<"_", "B", "a", "z">>

K_Something_short ==
    PfxVehicles \o <<"S", "o", "m", "e", "t", "h", "i", "n", "g", "_", "s", "h", "o", "r", "t">>

K_Foo == PfxVehicles \o <<"F", "o", "o">>

E_T34 ==
    [id |-> Text(<<"1">>), level |-> Text(<<"5">>), price |-> Text(<<"0">>),
     tags |-> Text(<<"m", "e", "d", "i", "u", "m", "T", "a", "n", "k", " ", "x">>),
     userString |-> Text(K_T34)]

E_KV1 ==
    [id |-> Text(<<"2">>), level |-> Text(<<"6">>), price |-> Compound,
     tags |-> Text(<<"h", "e", "a", "v", "y", "T", "a", "n", "k">>),
     userString |-> Text(K_KV1)]

E_IS2 ==
    [id |-> Text(<<"3">>), level |-> Text(<<"1", "0">>), price |-> Text(<<"0">>),
     tags |-> Text(<<"u", "n", "k", "n", "o", "w", "n">>),
     userString |-> Text(K_IS2)]

\* The malformed entries: E_KV1 with one attribute missing or not an integer.
BadEntries ==
    << [level |-> E_KV1.level, price |-> E_KV1.price, tags |-> E_KV1.tags,
        userString |-> E_KV1.userString],
       [E_KV1 EXCEPT !.id = Text(<<"x", "2">>)],
       [id |-> E_KV1.id, price |-> E_KV1.price, tags |-> E_KV1.tags,
        userString |-> E_KV1.userString],
       [E_KV1 EXCEPT !.level = Text(<<"V", "I">>)],
       [id |-> E_KV1.id, level |-> E_KV1.level, tags |-> E_KV1.tags,
        userString |-> E_KV1.userString],
       [id |-> E_KV1.id, level |-> E_KV1.level, price |-> E_KV1.price,
        userString |-> E_KV1.userString],
       [id |-> E_KV1.id, level |-> E_KV1.level, price |-> E_KV1.price,
        tags |-> E_KV1.tags] >>

AbsentXml == [exists |-> FALSE, root |-> <<>>]

Xml(entries) == [exists |-> TRUE, root |-> entries]

\* The list.xml files a nation directory may hold.  The first nation draws
\* from all of them, the others from ShortFilePool.
FilePool ==
    <<AbsentXml, Xml(<<E_T34>>), Xml(<<E_T34, E_KV1>>), Xml(<<E_IS2, E_T34>>), Xml(<<>>)>>
    \o [k \in 1..Len(BadEntries) |-> Xml(<<E_T34, BadEntries[k]>>)]

ShortFilePool == <<AbsentXml, Xml(<<E_KV1>>), Xml(<<E_IS2>>), Xml(<<E_T34, BadEntries[3]>>)>>

NationFiles(nation) == IF nation = NATION[1] THEN FilePool ELSE ShortFilePool

\* A line of en.yaml, given by what the two patterns of read_user_strs
\* capture from it: p_tank (the key and the text) and p_map (the map key and
\* the text).
TankLine(key, value) ==
    [tank |-> TRUE, tkey |-> key, ttext |-> value, map |-> FALSE, mkey |-> "", mtext |-> ""]

MapLine(key, value) ==
    [tank |-> FALSE, tkey |-> <<>>, ttext |-> <<>>, map |-> TRUE, mkey |-> key, mtext |-> value]

OtherLine ==
    [tank |-> FALSE, tkey |-> <<>>, ttext |-> <<>>, map |-> FALSE, mkey |-> "", mtext |-> ""]

UnreadableStrings == [readable |-> FALSE, lines |-> <<>>]

StringsPool ==
    << UnreadableStrings,
       [readable |-> TRUE, lines |-> <<OtherLine>>],
       [readable |-> TRUE,
        lines |-> << TankLine(K_T34, <<"T", "-", "3", "4">>),
                     TankLine(K_Chassis_Foo, <<"c">>),
                     TankLine(K_Turret_Bar, <<"t">>),
                     OtherLine,
                     TankLine(K_Baz, <<"b">>),
                     TankLine(K_Something_short, <<"s">>),
                     TankLine(K_Foo, <<"F", "o", "o", "!">>),
                     MapLine("desert", "Desert Sands"),
                     MapLine("macragge", "Macragge"),
                     MapLine("rift", "Rift") >>] >>

\* Files on disk.
AbsentFile == [kind |-> "absent", value |-> EmptyDict]

EmptyFile == [kind |-> "empty", value |-> EmptyDict]

GarbageFile == [kind |-> "garbage", value |-> EmptyDict]

JsonFile(v) == [kind |-> "json", value |-> v]

OldRecord(id, name) ==
    [is_premium |-> FALSE, name |-> name, nation |-> "ussr", tank_id |-> id,
     tier |-> 1, type |-> None]

OldData == (<<"1">> :> OldRecord(1, <<"A">>)) @@ (<<"2", "5", "7">> :> OldRecord(257, <<"B">>))

OldUserStr == (<<"F", "o", "o">> :> <<"o", "l", "d">>) @@ (<<"M", "S", "1">> :> <<"M", "S">>)

TanksPool ==
    << AbsentFile,
       GarbageFile,
       JsonFile([status |-> "ok", meta |-> [count |-> 2], data |-> OldData]),
       JsonFile([status |-> "ok", meta |-> [count |-> 2], userStr |-> OldUserStr]),
       JsonFile([status |-> "ok", meta |-> [count |-> 2], data |-> OldData,
                 userStr |-> OldUserStr]) >>

MapsPool ==
    << AbsentFile,
       GarbageFile,
       JsonFile(("desert" :> "Old Desert") @@ ("canal" :> "Canal")) >>

\* --------------------------------------------------------- extract_tanks

\* The body of the loop over tankList['root'] raises for this entry: a
\* missing attribute (KeyError), int() of a text that is no integer or of a
\* compound value, split of a compound tags value, a nation without an index.
EntryRaises(nation, tank_xml) ==
    \/ {"price", "id", "level", "tags", "userString"} \ DOMAIN tank_xml # {}
    \/ nation \notin DOMAIN NATION_ID
    \/ tank_xml.id.isdict \/ ~IsIntText(tank_xml.id.text)
    \/ tank_xml.level.isdict \/ ~IsIntText(tank_xml.level.text)
    \/ tank_xml.tags.isdict

TankOf(nation, tank_xml) ==
    [is_premium |-> tank_xml.price.isdict,
     nation     |-> nation,
     tank_id    |-> get_tank_id(nation, int(tank_xml.id.text)),
     tier       |-> int(tank_xml.level.text),
     type       |-> get_tank_type(tank_xml.tags.text),
     userStr    |-> tank_xml.userString]

\* Mutant of ParseTanks: an entry that raises is skipped, as a record is in
\* convert_tank_names, and the run goes on.
ParseTanks_skips_entry(nation, root) ==
    [kind  |-> "list",
     tanks |-> LET good == SelectSeq(root, LAMBDA e : ~EntryRaises(nation, e))
               IN  [i \in 1..Len(good) |-> TankOf(nation, good[i])]]

\* What the try block of extract_tanks comes to on the parsed file: the list
\* of tanks, or sys.exit(2) when an entry raises.  xmltodict gives None for a
\* root element without children, and None.keys() raises.
ParseTanks(nation, root) ==
    IF root = <<>> \/ \E i \in 1..Len(root) : EntryRaises(nation, root[i])
    THEN [kind |-> "exit", tanks |-> <<>>]
    ELSE [kind |-> "list", tanks |-> [i \in 1..Len(root) |-> TankOf(nation, root[i])]]

\* The value extract_tanks returns when list.xml is no file.
MissingFileResult == [kind |-> "none", tanks |-> <<>>]

Pending == [kind |-> "pending", tanks |-> <<>>]

\* --------------------------------------------------------- read_user_strs

Last(S) == CHOOSE i \in S : \A j \in S : j <= i

\* The loop of lines 152-159 assigns line by line: of the lines that give
\* one key the last decides.
tank_strs_of(lines) ==
    LET hits == {i \in 1..Len(lines) : lines[i].tank}
    IN  [key \in {lines[i].tkey : i \in hits} |->
            lines[Last({i \in hits : lines[i].tkey = key})].ttext]

map_strs_of(lines) ==
    LET hits == {i \in 1..Len(lines) : lines[i].map /\ lines[i].mtext # "Macragge"}
    IN  [key \in {lines[i].mkey : i \in hits} |->
            lines[Last({i \in hits : lines[i].mkey = key})].mtext]

\* ----------------------------------------------------- convert_tank_names

\* Mutant of TankName: the fallback takes the last segment, split(':')[-1].
TankName_last_segment(tank, strs) ==
    IF tank.userStr.isdict THEN [ok |-> FALSE, name |-> <<>>]
    ELSE IF tank.userStr.text \in DOMAIN strs
         THEN [ok |-> TRUE, name |-> strs[tank.userStr.text]]
         ELSE LET segs == split(tank.userStr.text, ":")
              IN  IF Len(segs) >= 2 THEN [ok |-> TRUE, name |-> segs[Len(segs)]]
                  ELSE [ok |-> FALSE, name |-> <<>>]

\* Lines 180-183: the name of a tank, or the exception the inner try catches
\* (a compound userStr is unhashable; split(':')[1] of a key with no colon).
TankName(tank, strs) ==
    IF tank.userStr.isdict THEN [ok |-> FALSE, name |-> <<>>]
    ELSE IF tank.userStr.text \in DOMAIN strs
         THEN [ok |-> TRUE, name |-> strs[tank.userStr.text]]
         ELSE LET segs == split(tank.userStr.text, ":")
              IN  IF Len(segs) >= 2 THEN [ok |-> TRUE, name |-> segs[2]]
                  ELSE [ok |-> FALSE, name |-> <<>>]

\* Lines 184-187: the tank with its name, without userStr.
Named(tank, name) ==
    [is_premium |-> tank.is_premium, name |-> name, nation |-> tank.nation,
     tank_id |-> tank.tank_id, tier |-> tank.tier, type |-> tank.type]

\* The loop of lines 177-190 over tanklist, in order: a tank whose name
\* raises is left out, and of the tanks with one tank_id the last decides.
TankLoop(list, strs) ==
    LET kept == {i \in 1..Len(list) : TankName(list[i], strs).ok}
    IN  [key \in {str(list[i].tank_id) : i \in kept} |->
            LET i == Last({j \in kept : str(list[j].tank_id) = key})
            IN  Named(list[i], TankName(list[i], strs).name)]

\* The loop changes the dicts of tanklist in place.
TanklistAfter(list, strs) ==
    [i \in 1..Len(list) |->
        IF TankName(list[i], strs).ok THEN Named(list[i], TankName(list[i], strs).name)
        ELSE list[i]]

\* Lines 196-203: some pattern matches the short key.
Skip(key) == \E i \in 1..Len(re_strs) : re_match(re_strs[i], key)

ShortKey(tank_str) == split(tank_str, ":")[2]

\* The loop of lines 192-205.  Two keys with one short key would make the
\* later one win; the string tables of the model have no such keys.
UserStrLoop(strs) ==
    LET kept == {k \in DOMAIN strs : ~Skip(ShortKey(k))}
    IN  [key \in {ShortKey(k) : k \in kept} |->
            strs[CHOOSE k \in kept : ShortKey(k) = key]]

\* split(':')[1] of a key without colon raises in the outer try: sys.exit(1).
convert_tank_names(list, strs) ==
    IF \E k \in DOMAIN strs : Len(split(k, ":")) < 2
    THEN [ok |-> FALSE, tankopedia |-> EmptyDict, userStrs |-> EmptyDict]
    ELSE [ok |-> TRUE, tankopedia |-> TankLoop(list, strs), userStrs |-> UserStrLoop(strs)]

\* ------------------------------------------------------------------ main

\* Lines 69-79: userStrs and tanks after the attempt to load the tankopedia.
\* The two assignments follow json.loads in one try block.
LoadTanks(file) ==
    IF file.kind # "json" \/ "userStr" \notin DOMAIN file.value
    THEN [userStrs |-> EmptyDict, tanks |-> EmptyDict]
    ELSE IF "data" \notin DOMAIN file.value
         THEN [userStrs |-> file.value.userStr, tanks |-> EmptyDict]
         ELSE [userStrs |-> file.value.userStr, tanks |-> file.value.data]

\* Lines 86-90.
Tankopedia(tks, strs) ==
    [status |-> "ok", meta |-> [count |-> Cardinality(DOMAIN tks)], data |-> tks,
     userStr |-> strs]

\* Lines 96-102.
LoadMaps(file) == IF file.kind = "json" THEN file.value ELSE EmptyDict

VARIABLES
    nationFile,     \* nation -> the list.xml of its directory
    stringsFile,    \* en.yaml
    tanksDisk,      \* the file args.tanks
    mapsDisk,       \* the file args.maps
    prior,          \* tanksDisk and mapsDisk as the run found them
    pc,             \* where main() is
    taskpc,         \* nation -> where its extract_tanks task is
    result,         \* nation -> what its task has come to
    finished,       \* the nations in the order their tasks ended (history)
    tanklist, tank_strs, map_strs,
    userStrs, tanks, new_tanks, new_userStrs, maps,
    exit_status,    \* the exit status of the process, once pc says it ended
    probe           \* the identifier encoder on its own

vars ==
    <<nationFile, stringsFile, tanksDisk, mapsDisk, prior, pc, taskpc, result,
      finished, tanklist, tank_strs, map_strs, userStrs, tanks, new_tanks, new_userStrs,
      maps, exit_status, probe>>

inputs == <<nationFile, stringsFile, prior>>

locals == <<tanklist, tank_strs, map_strs, userStrs, tanks, new_tanks, new_userStrs, maps>>

NoProbe == [a |-> <<"ussr", 0>>, b |-> <<"ussr", 0>>, ida |-> 0, idb |-> 0, done |-> FALSE]

InitLocals ==
    /\ finished = <<>>
    /\ taskpc = [n \in Nations |-> "none"]
    /\ result = [n \in Nations |-> Pending]
    /\ tanklist = <<>>
    /\ tank_strs = EmptyDict
    /\ map_strs = EmptyDict
    /\ userStrs = EmptyDict
    /\ tanks = EmptyDict
    /\ new_tanks = EmptyDict
    /\ new_userStrs = EmptyDict
    /\ maps = EmptyDict
    /\ exit_status = 0

Init ==
    /\ nationFile \in
         {f \in [Nations -> {FilePool[i] : i \in 1..Len(FilePool)}
                               \cup {ShortFilePool[i] : i \in 1..Len(ShortFilePool)}] :
             \A n \in Nations : \E i \in 1..Len(NationFiles(n)) : f[n] = NationFiles(n)[i]}
    /\ \E i \in 1..Len(StringsPool) : stringsFile = StringsPool[i]
    /\ \E i \in 1..Len(TanksPool) : tanksDisk = TanksPool[i]
    /\ \E i \in 1..Len(MapsPool) : mapsDisk = MapsPool[i]
    /\ prior = [tanks |-> tanksDisk, maps |-> mapsDisk]
    /\ pc = "start"
    /\ InitLocals
    /\ probe = NoProbe

\* Lines 59-61: a task per nation; none runs before main awaits.
CreateTasks ==
    /\ pc = "start"
    /\ taskpc' = [n \in Nations |-> "created"]
    /\ pc' = "gather"
    /\ UNCHANGED <<inputs, tanksDisk, mapsDisk, result, finished, locals, exit_status, probe>>

\* Lines 113-122: up to the first await.  No file: the task is over.
TaskStart(n) ==
    /\ pc = "gather"
    /\ taskpc[n] = "created"
    /\ IF nationFile[n].exists
       THEN /\ taskpc' = [taskpc EXCEPT ![n] = "opening"]
            /\ UNCHANGED <<result, finished>>
       ELSE /\ taskpc' = [taskpc EXCEPT ![n] = "done"]
            /\ result' = [result EXCEPT ![n] = MissingFileResult]
            /\ finished' = Append(finished, n)
    /\ UNCHANGED <<inputs, tanksDisk, mapsDisk, pc, locals, exit_status, probe>>

\* Line 122: aiofiles.open has returned; the task awaits f.read().
TaskOpened(n) ==
    /\ pc = "gather"
    /\ taskpc[n] = "opening"
    /\ taskpc' = [taskpc EXCEPT ![n] = "reading"]
    /\ UNCHANGED <<inputs, tanksDisk, mapsDisk, pc, result, finished, locals, exit_status,
                   probe>>

\* Lines 123-138: the text is read and parsed; leaving the async with block
\* (by return or by SystemExit) awaits the close of the file.
TaskParsed(n) ==
    /\ pc = "gather"
    /\ taskpc[n] = "reading"
    /\ taskpc' = [taskpc EXCEPT ![n] = "closing"]
    /\ result' = [result EXCEPT ![n] = ParseTanks(n, nationFile[n].root)]
    /\ UNCHANGED <<inputs, tanksDisk, mapsDisk, pc, finished, locals, exit_status, probe>>

\* Line 139, or SystemExit(2) leaving the task: the event loop stops and
\* the process ends with that status.
TaskClosed(n) ==
    /\ pc = "gather"
    /\ taskpc[n] = "closing"
    /\ taskpc' = [taskpc EXCEPT ![n] = "done"]
    /\ finished' = Append(finished, n)
    /\ IF result[n].kind = "exit"
       THEN pc' = "exited" /\ exit_status' = 2
       ELSE UNCHANGED <<pc, exit_status>>
    /\ UNCHANGED <<inputs, tanksDisk, mapsDisk, result, locals, probe>>

\* Mutant of AllDone: main goes on as soon as one task has ended.
AllDone_first_completed == \E n \in Nations : taskpc[n] = "done"

\* Line 64: await asyncio.gather(*tasks) returns when every task has ended.
AllDone == \A n \in Nations : taskpc[n] = "done"

RECURSIVE Extend(_)
Extend(k) == IF k = 0 THEN <<>> ELSE Extend(k - 1) \o result[NATION[k]].tanks

\* Lines 63-65: gather gives the results in the order of the tasks;
\* tanklist.extend(None) is a TypeError nothing catches.
Gather ==
    /\ pc = "gather"
    /\ AllDone
    /\ IF \E n \in Nations : result[n].kind = "none"
       THEN /\ pc' = "crashed"
            /\ exit_status' = 1
            /\ UNCHANGED tanklist
       ELSE /\ pc' = "read_user_strs"
            /\ tanklist' = Extend(Len(NATION))
            /\ UNCHANGED exit_status
    /\ UNCHANGED <<inputs, tanksDisk, mapsDisk, taskpc, result, finished, tank_strs, map_strs,
                   userStrs, tanks, new_tanks, new_userStrs, maps, probe>>

\* Line 67.
ReadUserStrs ==
    /\ pc = "read_user_strs"
    /\ IF stringsFile.readable
       THEN /\ tank_strs' = tank_strs_of(stringsFile.lines)
            /\ map_strs' = map_strs_of(stringsFile.lines)
            /\ pc' = "load_tanks"
            /\ UNCHANGED exit_status
       ELSE /\ pc' = "exited"
            /\ exit_status' = 1
            /\ UNCHANGED <<tank_strs, map_strs>>
    /\ UNCHANGED <<inputs, tanksDisk, mapsDisk, taskpc, result, finished, tanklist,
                   userStrs, tanks, new_tanks, new_userStrs, maps, probe>>

\* Lines 69-79.
LoadTankopedia ==
    /\ pc = "load_tanks"
    /\ userStrs' = LoadTanks(tanksDisk).userStrs
    /\ tanks' = LoadTanks(tanksDisk).tanks
    /\ pc' = "open_tanks"
    /\ UNCHANGED <<inputs, tanksDisk, mapsDisk, taskpc, result, finished, tanklist, tank_strs,
                   map_strs, new_tanks, new_userStrs, maps, exit_status, probe>>

\* Line 81: mode 'w' creates the file or cuts it to length zero.
OpenTankopedia ==
    /\ pc = "open_tanks"
    /\ tanksDisk' = EmptyFile
    /\ pc' = "convert"
    /\ UNCHANGED <<inputs, mapsDisk, taskpc, result, finished, locals, exit_status, probe>>

\* Line 82.
Convert ==
    /\ pc = "convert"
    /\ LET r == convert_tank_names(tanklist, tank_strs)
       IN  IF r.ok
           THEN /\ new_tanks' = r.tankopedia
                /\ new_userStrs' = r.userStrs
                /\ tanklist' = TanklistAfter(tanklist, tank_strs)
                /\ pc' = "merge"
                /\ UNCHANGED exit_status
           ELSE /\ pc' = "exited"
                /\ exit_status' = 1
                /\ UNCHANGED <<new_tanks, new_userStrs, tanklist>>
    /\ UNCHANGED <<inputs, tanksDisk, mapsDisk, taskpc, result, finished, tank_strs, map_strs,
                   userStrs, tanks, maps, probe>>

\* Lines 84-85.
Merge ==
    /\ pc = "merge"
    /\ tanks' = update(tanks, new_tanks)
    /\ userStrs' = update(userStrs, new_userStrs)
    /\ pc' = "write_tanks"
    /\ UNCHANGED <<inputs, tanksDisk, mapsDisk, taskpc, result, finished, tanklist, tank_strs,
                   map_strs, new_tanks, new_userStrs, maps, exit_status, probe>>

\* Lines 86-93.
WriteTankopedia ==
    /\ pc = "write_tanks"
    /\ tanksDisk' = JsonFile(Tankopedia(tanks, userStrs))
    /\ pc' = "load_maps"
    /\ UNCHANGED <<inputs, mapsDisk, taskpc, result, finished, locals, exit_status, probe>>

\* Lines 96-104.
LoadAndMergeMaps ==
    /\ pc = "load_maps"
    /\ maps' = update(LoadMaps(mapsDisk), map_strs)
    /\ pc' = "open_maps"
    /\ UNCHANGED <<inputs, tanksDisk, mapsDisk, taskpc, result, finished, tanklist, tank_strs,
                   map_strs, userStrs, tanks, new_tanks, new_userStrs, exit_status, probe>>

\* Line 105.
OpenMaps ==
    /\ pc = "open_maps"
    /\ mapsDisk' = EmptyFile
    /\ pc' = "write_maps"
    /\ UNCHANGED <<inputs, tanksDisk, taskpc, result, finished, locals, exit_status, probe>>

\* Lines 106-109.
WriteMaps ==
    /\ pc = "write_maps"
    /\ mapsDisk' = JsonFile(maps)
    /\ pc' = "done"
    /\ UNCHANGED <<inputs, tanksDisk, taskpc, result, finished, locals, exit_status, probe>>

Next ==
    \/ CreateTasks
    \/ \E n \in Nations : TaskStart(n)
    \/ \E n \in Nations : TaskOpened(n)
    \/ \E n \in Nations : TaskParsed(n)
    \/ \E n \in Nations : TaskClosed(n)
    \/ Gather
    \/ ReadUserStrs
    \/ LoadTankopedia
    \/ OpenTankopedia
    \/ Convert
    \/ Merge
    \/ WriteTankopedia
    \/ LoadAndMergeMaps
    \/ OpenMaps
    \/ WriteMaps

Spec == Init /\ [][Next]_vars

\* ------------------------------------------- the identifier encoder alone

RawIds == (0..MaxRawId) \cup {255, 256, 65535}

ProbeInputs == {<<AllNations[i], r>> : i \in 1..Len(AllNations), r \in RawIds}

InitId ==
    /\ probe \in [a : ProbeInputs, b : ProbeInputs, ida : {0}, idb : {0}, done : {FALSE}]
    /\ nationFile = [n \in Nations |-> AbsentXml]
    /\ stringsFile = UnreadableStrings
    /\ tanksDisk = AbsentFile
    /\ mapsDisk = AbsentFile
    /\ prior = [tanks |-> tanksDisk, maps |-> mapsDisk]
    /\ pc = "idle"
    /\ InitLocals

\* get_tank_id on the two inputs (wg is set).
Encode ==
    /\ ~probe.done
    /\ probe' = [probe EXCEPT !.ida = get_tank_id(probe.a[1], probe.a[2]),
                              !.idb = get_tank_id(probe.b[1], probe.b[2]),
                              !.done = TRUE]
    /\ UNCHANGED <<inputs, tanksDisk, mapsDisk, pc, taskpc, result, finished, locals,
                   exit_status>>

NextId == Encode

SpecId == InitId /\ [][NextId]_vars

\* ------------------------------------------------------------ properties

Resolved == pc \in {"merge", "write_tanks", "load_maps", "open_maps", "write_maps", "done"}

TanksWritten == pc \in {"load_maps", "open_maps", "write_maps", "done"}

Ended == pc \in {"done", "exited", "crashed"}

\* merged is old overlaid with new, key by key.
Overlay(merged, old, new) ==
    /\ DOMAIN merged = DOMAIN old \cup DOMAIN new
    /\ \A k \in DOMAIN new : merged[k] = new[k]
    /\ \A k \in DOMAIN old \ DOMAIN new : merged[k] = old[k]

\* Some key is in both with different values, one only in old, one only in new.
Overlapping(old, new) ==
    /\ \E k \in DOMAIN old \cap DOMAIN new : old[k] # new[k]
    /\ DOMAIN old \ DOMAIN new # {}
    /\ DOMAIN new \ DOMAIN old # {}

PriorTanksLoaded ==
    prior.tanks.kind = "json" /\ {"userStr", "data"} \subseteq DOMAIN prior.tanks.value

\* C1: when the prior catalog exists and loads, what main() writes is the
\* key-wise overlay of the new mapping over the prior one, for the data
\* mapping, the userStr mapping and the maps catalog.
C1_MergeIsOverlay ==
    /\ (TanksWritten /\ PriorTanksLoaded) =>
          /\ tanksDisk.kind = "json"
          /\ Overlay(tanksDisk.value.data, prior.tanks.value.data, new_tanks)
          /\ Overlay(tanksDisk.value.userStr, prior.tanks.value.userStr, new_userStrs)
    /\ (pc = "done" /\ prior.maps.kind = "json") =>
          /\ mapsDisk.kind = "json"
          /\ Overlay(mapsDisk.value, prior.maps.value, map_strs)

C1_Witness ==
    /\ pc = "done"
    /\ PriorTanksLoaded
    /\ prior.maps.kind = "json"
    /\ Overlapping(prior.tanks.value.data, new_tanks)
    /\ Overlapping(prior.tanks.value.userStr, new_userStrs)
    /\ Overlapping(prior.maps.value, map_strs)

\* The records of all nation files, resolved against the string table of
\* en.yaml: a mapping the inputs fix, whatever the order of the tasks.
ExpectedTankopedia ==
    LET strs == tank_strs_of(stringsFile.lines)
        recs == UNION {{TankOf(n, nationFile[n].root[i]) : i \in 1..Len(nationFile[n].root)} :
                          n \in Nations}
        kept == {t \in recs : TankName(t, strs).ok}
    IN  [k \in {str(t.tank_id) : t \in kept} |->
            LET t == CHOOSE t \in kept : str(t.tank_id) = k
            IN  Named(t, TankName(t, strs).name)]

\* Every nation file that is there holds entries, none of them malformed,
\* and en.yaml can be read.
OtherInputsFine ==
    /\ stringsFile.readable
    /\ \A n \in Nations :
          nationFile[n].exists =>
              /\ nationFile[n].root # <<>>
              /\ \A i \in 1..Len(nationFile[n].root) : ~EntryRaises(n, nationFile[n].root[i])

\* C2: a nation whose list.xml is absent contributes an empty sequence and
\* the run goes on: it ends with the records of the other nations resolved,
\* merged and written to the tankopedia file.
C2_MissingNationIsSkipped ==
    /\ \A n \in Nations :
          (~nationFile[n].exists /\ taskpc[n] = "done" /\ pc # "gather") =>
              result[n] = [kind |-> "list", tanks |-> <<>>]
    /\ (Ended /\ OtherInputsFine /\ \E n \in Nations : ~nationFile[n].exists) =>
          /\ pc = "done"
          /\ tanksDisk.kind = "json"
          /\ DOMAIN ExpectedTankopedia \subseteq DOMAIN tanksDisk.value.data

LoadFailed(file) ==
    \/ file.kind \in {"garbage", "empty"}
    \/ file.kind = "json" /\ ~({"userStr", "data"} \subseteq DOMAIN file.value)

\* C3: when loading the prior tankopedia fails, the prior data and userStr
\* mappings are both empty at merge time and the written catalog holds
\* exactly the new entries.
C3_FailedLoadGivesEmptyPrior ==
    LoadFailed(prior.tanks) =>
        /\ pc \in {"open_tanks", "convert", "merge"} =>
              userStrs = EmptyDict /\ tanks = EmptyDict
        /\ TanksWritten =>
              /\ tanksDisk.value.data = new_tanks
              /\ tanksDisk.value.userStr = new_userStrs

\* C4: the tankopedia file keeps its prior content until name resolution and
\* the merge have finished.
C4_FileKeptUntilMerged ==
    pc \in {"start", "gather", "read_user_strs", "load_tanks", "open_tanks",
            "convert", "merge", "exited", "crashed"}
        => tanksDisk = prior.tanks

\* The malformed entries C5 names.
Malformed(e) ==
    \/ {"id", "level", "price", "tags", "userString"} \ DOMAIN e # {}
    \/ ~IsIntText(e.id.text)
    \/ ~IsIntText(e.level.text)

Fatal ==
    \/ \E n \in Nations :
          /\ nationFile[n].exists
          /\ \E i \in 1..Len(nationFile[n].root) : Malformed(nationFile[n].root[i])
    \/ ~stringsFile.readable

\* C5: with a malformed vehicle entry in a present nation file, or an
\* unreadable localization file, the run ends with a non-zero status and
\* neither catalog file is opened for writing.
C5_FatalInputNeverPersists ==
    Fatal =>
        /\ pc \in {"start", "gather", "read_user_strs", "exited", "crashed"}
        /\ tanksDisk = prior.tanks
        /\ mapsDisk = prior.maps
        /\ Ended => exit_status # 0
        /\ Ended \/ ENABLED Next

C5_Witness ==
    /\ pc = "exited"
    /\ exit_status = 2
    /\ prior.tanks.kind = "json"
    /\ prior.maps.kind = "json"
    /\ stringsFile.readable
    /\ result[NATION[1]].kind = "list" /\ taskpc[NATION[1]] = "done"
    /\ \E i \in 1..Len(nationFile[NATION[2]].root) : Malformed(nationFile[NATION[2]].root[i])

HasColon(s) == \E i \in 1..Len(s) : s[i] = ":"

FirstColon(s) == CHOOSE i \in 1..Len(s) : s[i] = ":" /\ \A j \in 1..(i - 1) : s[j] # ":"

\* The text between the first colon of s and the next one (or the end).
SecondSegment(s) ==
    LET rest == SubSeq(s, FirstColon(s) + 1, Len(s))
    IN  IF HasColon(rest) THEN SubSeq(rest, 1, FirstColon(rest) - 1) ELSE rest

\* rec is the raw record t without its display key, with a name.
SameTank(rec, t) ==
    /\ DOMAIN rec = {"is_premium", "name", "nation", "tank_id", "tier", "type"}
    /\ rec.is_premium = t.is_premium
    /\ rec.nation = t.nation
    /\ rec.tank_id = t.tank_id
    /\ rec.tier = t.tier
    /\ rec.type = t.type

RawRecords == UNION {{result[n].tanks[i] : i \in 1..Len(result[n].tanks)} : n \in Nations}

InTable(t) == t.userStr.text \in DOMAIN tank_strs

\* C6: a record whose display key is in vehicleStrings gets the mapped text
\* as name; otherwise one with a colon gets the second segment; one without
\* is dropped alone, the others staying under str(tank_id).
C6_NameResolution ==
    Resolved =>
        \A t \in RawRecords :
            LET key == str(t.tank_id)
            IN  IF InTable(t)
                THEN /\ key \in DOMAIN new_tanks
                     /\ new_tanks[key].name = tank_strs[t.userStr.text]
                     /\ SameTank(new_tanks[key], t)
                ELSE IF HasColon(t.userStr.text)
                     THEN /\ key \in DOMAIN new_tanks
                          /\ new_tanks[key].name = SecondSegment(t.userStr.text)
                          /\ SameTank(new_tanks[key], t)
                     ELSE key \notin DOMAIN new_tanks

C6_Witness ==
    /\ pc = "done"
    /\ \E t \in RawRecords : InTable(t)
    /\ \E t \in RawRecords : ~InTable(t) /\ HasColon(t.userStr.text)
    /\ \E t \in RawRecords : ~InTable(t) /\ ~HasColon(t.userStr.text)

IsSuffix(p, s) == Len(p) <= Len(s) /\ SubSeq(s, Len(s) - Len(p) + 1, Len(s)) = p

Excluded(short) ==
    \/ IsPrefix(<<"C", "h", "a", "s", "s", "i", "s", "_">>, short)
    \/ IsPrefix(<<"T", "u", "r", "r", "e", "t", "_">>, short)
    \/ IsPrefix(<<"_">>, short)
    \/ IsSuffix(<<"_", "s", "h", "o", "r", "t">>, short)

\* C7: the short key of a vehicleStrings key is absent from userStrings when
\* it begins with Chassis_, Turret_ or _ or ends with _short, and is mapped
\* to the original text otherwise.
C7_UserStrFilter ==
    Resolved =>
        \A k \in DOMAIN tank_strs :
            LET short == SecondSegment(k)
            IN  IF Excluded(short) THEN short \notin DOMAIN new_userStrs
                ELSE short \in DOMAIN new_userStrs /\ new_userStrs[short] = tank_strs[k]

RECURSIVE BitOr(_, _)
BitOr(x, y) ==
    IF x = 0 THEN y
    ELSE IF y = 0 THEN x
    ELSE 2 * BitOr(x \div 2, y \div 2) + (IF x % 2 = 1 \/ y % 2 = 1 THEN 1 ELSE 0)

\* C8: over nation indices 0..15 and non-negative raw ids, distinct
\* (nation, raw id) pairs get distinct ids, each (raw_id << 8) |
\* (nation_index << 4) | 1.
C8_IdsAreDistinct ==
    probe.done =>
        /\ probe.a # probe.b => probe.ida # probe.idb
        /\ probe.ida =
              BitOr(BitOr(probe.a[2] * 256, NATION_ID[probe.a[1]] * 16), 1)

C8_Witness ==
    /\ probe.done
    /\ probe.a[1] = AllNations[Len(AllNations)]
    /\ probe.b[1] = AllNations[1]
    /\ probe.a[2] = probe.b[2]
    /\ probe.a[2] > 0
    /\ probe.ida # probe.idb

NoRecords == \A n \in Nations : ~nationFile[n].exists \/ nationFile[n].root = <<>>

NoStrings ==
    /\ stringsFile.readable
    /\ tank_strs_of(stringsFile.lines) = EmptyDict
    /\ map_strs_of(stringsFile.lines) = EmptyDict

WrittenByProgram(file) ==
    /\ file.kind = "json"
    /\ DOMAIN file.value = {"status", "meta", "data", "userStr"}
    /\ file.value.status = "ok"
    /\ file.value.meta.count = Cardinality(DOMAIN file.value.data)

\* C9: a run whose extraction yields no vehicle records and no strings
\* writes back a catalog identical to the prior one.
C9_EmptyBatchRewritesCatalog ==
    (Ended /\ NoRecords /\ NoStrings /\ WrittenByProgram(prior.tanks)) =>
        /\ pc = "done"
        /\ tanksDisk = prior.tanks
        /\ prior.maps.kind = "json" => mapsDisk = prior.maps

\* C10: name resolution starts only after every nation task has ended, and
\* the resolved mapping is the same for every order in which they ran.
C10_TasksAreIndependent ==
    /\ pc \notin {"start", "gather", "exited", "crashed"} =>
          \A n \in Nations : taskpc[n] = "done" /\ result[n].kind = "list"
    /\ Resolved => new_tanks = ExpectedTankopedia

C10_Witness ==
    /\ pc = "merge"
    /\ Len(finished) = Len(NATION)
    /\ finished[1] = NATION[Len(NATION)]
    /\ \A n \in Nations : Len(result[n].tanks) >= 1
    /\ Cardinality(DOMAIN new_tanks) >= 2

====
